---------------------------- MODULE Spec2Model ----------------------------
(***************************************************************************)
(* Call-session model of the AI receptionist: the pipecat bot (bot.py),    *)
(* its persistence layer (db.py), the WebSocket endpoint that hosts it     *)
(* (server.py) and the LiveKit agent (livekit_agent.py).                   *)
(*                                                                         *)
(* Text is a sequence of one-character strings; a transcript line is the   *)
(* prefix token followed by the characters of the utterance.  Time is      *)
(* counted in ticks of 1/TicksPerSecond seconds so that the truncation of  *)
(* int(time.time() - start_time) is visible.                               *)
(***************************************************************************)
EXTENDS Integers, Sequences, FiniteSets, TLC

\* ------------------------------------------------------------------ bounds

\* Events (transcripts, tool calls, replies, disconnects) delivered to one call.
MaxEvents == 3

\* Clock ticks that may elapse between two readings of the clock.
MaxTime == 2

\* Tool calls the LiveKit agent's model makes during one call.
MaxLkTools == 2

\* Clock resolution of the model: ticks per second.
TicksPerSecond == 2

\* GET /logs requests served.
MaxRequests == 2


\* ------------------------------------------------------------ input domains

None == "None"

\* Values of the POSTGRES_URL environment variable: unset, empty, a URL.
PostgresUrls == {None, "", "postgres://db"}

\* The body decoded from the /ws query string: absent (None), or with "from".
Bodies == {[none |-> TRUE], [none |-> FALSE, from |-> "+15550100"]}

Whitespace == {" "}

\* Frames delivered to on_transcript: one without a text attribute, and texts.
NoTextFrame == [kind |-> "frame"]

Texts == {<<>>, <<" ">>, <<" ", "a">>, <<"b", " ">>}

Frames == {NoTextFrame} \cup {[kind |-> "frame", text |-> t] : t \in Texts}

\* A provisional (interim) recognition result: not yet final, with a text.
InterimFrames == {[kind |-> "interim", text |-> <<"a">>]}

\* Texts of the assistant replies the pipeline produces.
ReplyTexts == {<<"r">>}

\* What the database does to one log_call: psycopg2.connect raising, the
\* INSERT raising, the commit raising, or everything succeeding.
DbOutcomes == {"connect_fail", "execute_fail", "commit_fail", "ok"}

\* cursor.fetchone / cursor.fetchall raising.
FetchOutcomes == {"fetch_fail"}

\* What the database does to one init_db, log_call or /logs request.
OperationOutcomes == DbOutcomes \cup FetchOutcomes

\* LIMIT of the /logs query.
LogsLimit == 20

\* psycopg2.connect is called without a timeout: it may not return.
HangOutcomes == {"connect_hangs"}

\* The outcomes of log_call the transport-level specification draws from.
SessionDbOutcomes == {"ok"} \cup HangOutcomes

\* The system instruction the context starts with, and the one the connect
\* handler appends.
SYSTEM_PROMPT == "SYSTEM_PROMPT"

GreetingInstruction == "A caller just connected. Greet them warmly."

\* Two calls served concurrently by one process, and the caller of each.
Calls == {1, 2}

CallBodies ==
    [c \in Calls |-> [none |-> FALSE,
                      from |-> IF c = 1 THEN "+15550100" ELSE "+15550101"]]

\* The CallTracker slot of a call whose run_bot has not been entered.
NoTracker ==
    [caller_number |-> None, transcript_parts |-> <<>>,
     detected_intent |-> None, start_time |-> 0]

\* Arguments the LiveKit model passes to its tools.
LkIntents == {"sales", "support"}

LkSummaries == {"s"}

LkDepartments == {"sales", "billing"}

LkCallerNames == {"n"}

LkReasons == {"q"}

\* Identity of the caller the agent finds in the room.
LkCallers == {"browser-user", "sip_+15550100"}

\* ------------------------------------------------------------------- state

VARIABLES
    pc,                 \* websocket_endpoint: "accepted", "running", "closed";
                        \* "blocked" while a synchronous call holds the event loop;
                        \* "startup_failed" when the startup hook raised
    now,                \* time.time(), in ticks
    POSTGRES_URL,       \* the environment variable read by get_connection
    caller_number,      \* CallTracker.caller_number
    transcript_parts,   \* CallTracker.transcript_parts
    detected_intent,    \* CallTracker.detected_intent
    start_time,         \* CallTracker.start_time
    awaiting,           \* number of tool handlers suspended in await result_callback(...)
    log_call_args,      \* the records handed to db.log_call, in call order
    db_rows,            \* rows inserted and committed to receptionist_call_logs
    conns,              \* [opened, closed]: database connections opened / closed
    logged,             \* the kinds of log lines written so far
    task_cancels,       \* number of task.cancel() calls made
    handler_raised,     \* disconnect handlers left by an exception
    trace,              \* history: the events delivered to the call so far
    context_messages,   \* run_bot's context_messages list
    queued_frames,      \* frames handed to task.queue_frames, in order
    client_state,       \* websocket.client_state
    ws_closes,          \* number of websocket.close() calls the endpoint made
    tool_results,       \* the results handed to result_callback, in call order
    db_ops,             \* history: the init_db and /logs operations performed
    lk_pc,              \* LiveKit entrypoint: "init", "active", "closed"
    lk_caller_number,   \* Receptionist._caller_number
    lk_transcript_parts,\* Receptionist._transcript_parts
    lk_detected_intent, \* Receptionist._detected_intent
    lk_call_start_time, \* Receptionist._call_start_time
    lk_log_call_args,   \* the records handed to livekit_db.log_call
    tc_pc,              \* concurrent calls: per call, "accepted" or "running"
    tc_tracker,         \* concurrent calls: the CallTracker objects
    tc_log_call_args,   \* concurrent calls: the records handed to db.log_call
    tc_trace            \* concurrent calls: per call, the events delivered to it

botVars == <<pc, caller_number, transcript_parts, detected_intent,
             start_time, awaiting, log_call_args, db_rows, conns, logged,
             task_cancels, handler_raised, trace, context_messages,
             queued_frames, client_state, ws_closes, tool_results, db_ops>>

lkVars == <<lk_pc, lk_caller_number, lk_transcript_parts, lk_detected_intent,
            lk_call_start_time, lk_log_call_args>>

tcVars == <<tc_pc, tc_tracker, tc_log_call_args, tc_trace>>

ctxVars == <<context_messages, queued_frames>>

wsVars == <<client_state, ws_closes>>

vars == <<now, POSTGRES_URL, botVars, lkVars, tcVars>>

\* ------------------------------------------------------------ text helpers

RECURSIVE lstrip(_)
lstrip(s) ==
    IF s = <<>> THEN s
    ELSE IF Head(s) \in Whitespace THEN lstrip(Tail(s)) ELSE s

RECURSIVE rstrip(_)
rstrip(s) ==
    IF s = <<>> THEN s
    ELSE IF s[Len(s)] \in Whitespace THEN rstrip(SubSeq(s, 1, Len(s) - 1)) ELSE s

\* str.strip()
strip(s) == rstrip(lstrip(s))

\* sep.join(parts)
RECURSIVE join(_, _)
join(sep, parts) ==
    IF parts = <<>> THEN <<>>
    ELSE IF Len(parts) = 1 THEN parts[1]
    ELSE parts[1] \o sep \o join(sep, Tail(parts))

\* Python truthiness of an optional string.
Truthy(s) == s # None /\ s # ""

\* dict.get(key, default) on the decoded body; `body or {}` first.
BodyGet(b, key, default) ==
    IF b.none THEN default
    ELSE IF key \in DOMAIN b THEN b[key] ELSE default

IsPrefix(s, t) == Len(s) <= Len(t) /\ SubSeq(t, 1, Len(s)) = s

\* ------------------------------------------------------------- CallTracker

CallerPrefix == <<"Caller: ">>

ReceptionistPrefix == <<"Receptionist: ">>

NewLine == <<"\n">>

\* CallTracker.duration
duration(t, start) == (t - start) \div TicksPerSecond

\* Mutant: a placeholder text stands for an empty transcript.
transcript_placeholder(parts) ==
    IF parts = <<>> THEN <<"No transcript">> ELSE join(NewLine, parts)

\* CallTracker.transcript
transcript(parts) == join(NewLine, parts)

\* Mutant: the line is inserted at the head of the list.
add_user_message_prepend(parts, text) == <<CallerPrefix \o text>> \o parts

\* CallTracker.add_user_message
add_user_message(parts, text) == Append(parts, CallerPrefix \o text)

\* CallTracker.add_assistant_message (no caller in run_bot)
add_assistant_message(parts, text) == Append(parts, ReceptionistPrefix \o text)

\* Mutant: the first intent detected is kept.
set_intent_keep_first(current, intent) ==
    IF current = "unknown" THEN intent ELSE current

\* CallTracker.set_intent: the new value of detected_intent
set_intent(current, intent) == intent

\* ------------------------------------------------------------------- db.py

\* Mutant: the connection is attempted whether or not POSTGRES_URL is set.
get_connection_unchecked(url, outcome) ==
    IF outcome = "connect_fail"
    THEN [conn |-> None, raised |-> TRUE, hung |-> FALSE, logs |-> {}]
    ELSE IF outcome \in HangOutcomes
    THEN [conn |-> None, raised |-> FALSE, hung |-> TRUE, logs |-> {}]
    ELSE [conn |-> "open", raised |-> FALSE, hung |-> FALSE, logs |-> {}]

\* get_connection: None with a warning when POSTGRES_URL is falsy, else
\* psycopg2.connect, which returns a connection, raises, or (called without
\* a timeout) does not return.
get_connection(url, outcome) ==
    IF ~Truthy(url)
    THEN [conn |-> None, raised |-> FALSE, hung |-> FALSE,
          logs |-> {"warning: POSTGRES_URL not set"}]
    ELSE IF outcome = "connect_fail"
    THEN [conn |-> None, raised |-> TRUE, hung |-> FALSE, logs |-> {}]
    ELSE IF outcome \in HangOutcomes
    THEN [conn |-> None, raised |-> FALSE, hung |-> TRUE, logs |-> {}]
    ELSE [conn |-> "open", raised |-> FALSE, hung |-> FALSE, logs |-> {}]

\* Mutant: the connection is closed at the end of the try block only.
log_call_close_on_success(url, outcome, rec) ==
    LET c == get_connection(url, outcome) IN
    IF c.raised \/ c.hung
    THEN [args |-> rec, raised |-> c.raised, hung |-> c.hung, rows |-> <<>>,
          logs |-> c.logs, opened |-> 0, closed |-> 0]
    ELSE IF c.conn = None
    THEN [args |-> rec, raised |-> FALSE, hung |-> FALSE, rows |-> <<>>,
          logs |-> c.logs \cup {"warning: Skipping DB log"},
          opened |-> 0, closed |-> 0]
    ELSE IF outcome = "ok"
    THEN [args |-> rec, raised |-> FALSE, hung |-> FALSE, rows |-> <<rec>>,
          logs |-> {"info: Call logged"}, opened |-> 1, closed |-> 1]
    ELSE [args |-> rec, raised |-> FALSE, hung |-> FALSE, rows |-> <<>>,
          logs |-> {"error: Failed to log call"}, opened |-> 1, closed |-> 0]

\* log_call: what one call does: whether it raises or does not return, the
\* rows it commits, the lines it logs, the connections it opens and closes.
log_call(url, outcome, rec) ==
    LET c == get_connection(url, outcome) IN
    IF c.raised \/ c.hung
    THEN [args |-> rec, raised |-> c.raised, hung |-> c.hung, rows |-> <<>>,
          logs |-> c.logs, opened |-> 0, closed |-> 0]
    ELSE IF c.conn = None
    THEN [args |-> rec, raised |-> FALSE, hung |-> FALSE, rows |-> <<>>,
          logs |-> c.logs \cup {"warning: Skipping DB log"},
          opened |-> 0, closed |-> 0]
    ELSE IF outcome = "ok"
    THEN [args |-> rec, raised |-> FALSE, hung |-> FALSE, rows |-> <<rec>>,
          logs |-> {"info: Call logged"}, opened |-> 1, closed |-> 1]
    ELSE [args |-> rec, raised |-> FALSE, hung |-> FALSE, rows |-> <<>>,
          logs |-> {"error: Failed to log call"}, opened |-> 1, closed |-> 1]

\* init_db: what one call does.  The table is created when nothing fails;
\* a failure inside the try block is logged; the connection is closed in the
\* finally clause.
init_db(url, outcome) ==
    LET c == get_connection(url, outcome) IN
    IF c.raised \/ c.hung
    THEN [raised |-> c.raised, hung |-> c.hung, logs |-> c.logs,
          opened |-> 0, closed |-> 0]
    ELSE IF c.conn = None
    THEN [raised |-> FALSE, hung |-> FALSE, logs |-> c.logs,
          opened |-> 0, closed |-> 0]
    ELSE IF outcome = "ok"
    THEN [raised |-> FALSE, hung |-> FALSE,
          logs |-> {"info: Database initialized"}, opened |-> 1, closed |-> 1]
    ELSE [raised |-> FALSE, hung |-> FALSE,
          logs |-> {"error: Database init error"}, opened |-> 1, closed |-> 1]

\* The /logs handler: 503 without a connection, 200 with at most LogsLimit
\* rows, 500 when the query or the fetch fails; the connection is closed in
\* the finally clause, after the return value is computed.
get_logs_response(url, outcome, rows) ==
    LET c == get_connection(url, outcome) IN
    IF c.raised \/ c.hung
    THEN [raised |-> c.raised, hung |-> c.hung, status |-> 0, count |-> 0,
          logs |-> c.logs, opened |-> 0, closed |-> 0]
    ELSE IF c.conn = None
    THEN [raised |-> FALSE, hung |-> FALSE, status |-> 503, count |-> 0,
          logs |-> c.logs, opened |-> 0, closed |-> 0]
    ELSE IF outcome \in {"execute_fail", "fetch_fail"}
    THEN [raised |-> FALSE, hung |-> FALSE, status |-> 500, count |-> 0,
          logs |-> {"error: Failed to fetch logs"}, opened |-> 1, closed |-> 1]
    ELSE [raised |-> FALSE, hung |-> FALSE, status |-> 200,
          count |-> IF Len(rows) < LogsLimit THEN Len(rows) ELSE LogsLimit,
          logs |-> {}, opened |-> 1, closed |-> 1]

\* CallTracker.save
save(url, outcome, number, parts, intent, t, start) ==
    log_call(url, outcome,
             [caller_number |-> number, transcript |-> transcript(parts),
              detected_intent |-> intent, duration |-> duration(t, start)])

\* ------------------------------------------------------- server.py / bot.py

Init ==
    /\ pc = "accepted"
    /\ now = 0
    /\ POSTGRES_URL \in PostgresUrls
    /\ caller_number = None
    /\ transcript_parts = <<>>
    /\ detected_intent = None
    /\ start_time = 0
    /\ awaiting = 0
    /\ log_call_args = <<>>
    /\ db_rows = <<>>
    /\ conns = [opened |-> 0, closed |-> 0]
    /\ logged = {}
    /\ task_cancels = 0
    /\ handler_raised = 0
    /\ trace = <<>>
    /\ context_messages = <<>>
    /\ queued_frames = <<>>
    /\ client_state = "CONNECTED"
    /\ ws_closes = 0
    /\ tool_results = <<>>
    /\ db_ops = <<>>
    /\ tc_pc = [c \in Calls |-> "accepted"]
    /\ tc_tracker = [c \in Calls |-> NoTracker]
    /\ tc_log_call_args = <<>>
    /\ tc_trace = [c \in Calls |-> <<>>]
    /\ lk_pc = "init"
    /\ lk_caller_number = None
    /\ lk_transcript_parts = <<>>
    /\ lk_detected_intent = None
    /\ lk_call_start_time = 0
    /\ lk_log_call_args = <<>>

\* run_bot is inside runner.run(task): events reach the handlers.
Running == pc = "running"

\* The events delivered to one call are bounded.
WithinBudget == Len(trace) < MaxEvents

\* websocket_endpoint up to bot() -> run_bot(): the body is decoded, the
\* caller number read from it and the CallTracker constructed.
run_bot ==
    /\ pc = "accepted"
    /\ \E b \in Bodies : caller_number' = BodyGet(b, "from", "unknown")
    /\ transcript_parts' = <<>>
    /\ detected_intent' = "unknown"
    /\ start_time' = now
    /\ context_messages' = <<[role |-> "system", content |-> SYSTEM_PROMPT]>>
    /\ pc' = "running"
    /\ UNCHANGED <<now, POSTGRES_URL, awaiting, log_call_args, db_rows, conns,
                   logged, task_cancels, handler_raised, trace, queued_frames,
                   wsVars, tool_results, db_ops, lkVars, tcVars>>

\* Mutant: the finally clause closes the websocket whatever its state.
EndpointExit_close_always(error) ==
    /\ pc' = "closed"
    /\ awaiting' = 0
    /\ logged' = IF error THEN logged \cup {"error: Bot error"} ELSE logged
    /\ ws_closes' = ws_closes + 1

\* The tail of websocket_endpoint: the except clause logs an error that
\* reached it, the finally clause closes the websocket unless its client
\* state is DISCONNECTED, and the endpoint returns.  Handlers still suspended
\* are discarded with the pipeline: nothing resumes them once the runner is
\* gone.
EndpointExit(error) ==
    /\ pc' = "closed"
    /\ awaiting' = 0
    /\ logged' = IF error THEN logged \cup {"error: Bot error"} ELSE logged
    /\ ws_closes' = IF client_state # "DISCONNECTED" THEN ws_closes + 1
                    ELSE ws_closes

\* bot() raises before run_bot is entered (parse_telephony_websocket, the
\* serializer or the transport failing): no CallTracker exists.
bot_setup_raises ==
    /\ pc = "accepted"
    /\ EndpointExit(TRUE)
    /\ UNCHANGED <<now, POSTGRES_URL, caller_number, transcript_parts,
                   detected_intent, start_time, log_call_args, db_rows,
                   conns, task_cancels, handler_raised, trace, ctxVars,
                   client_state, tool_results, db_ops, lkVars, tcVars>>

\* runner.run(task) returns: after a cancel, or because the pipeline ended.
runner_returns ==
    /\ pc = "running"
    /\ EndpointExit(FALSE)
    /\ UNCHANGED <<now, POSTGRES_URL, caller_number, transcript_parts,
                   detected_intent, start_time, log_call_args, db_rows,
                   conns, task_cancels, handler_raised, trace, ctxVars,
                   client_state, tool_results, db_ops, lkVars, tcVars>>

\* runner.run(task) raises; the endpoint's except clause logs the error.
runner_raises ==
    /\ pc = "running"
    /\ EndpointExit(TRUE)
    /\ UNCHANGED <<now, POSTGRES_URL, caller_number, transcript_parts,
                   detected_intent, start_time, log_call_args, db_rows,
                   conns, task_cancels, handler_raised, trace, ctxVars,
                   client_state, tool_results, db_ops, lkVars, tcVars>>

\* time.time(): the clock is observed only where the code reads it, and a
\* later reading is never smaller than an earlier one.
Clock(t) == t >= now /\ t <= MaxTime

\* The body of on_transcript: the transcript parts after the frame.
on_transcript_parts(parts, frame) ==
    IF "text" \in DOMAIN frame /\ frame.text # <<>>
    THEN LET text == strip(frame.text) IN
         IF text # <<>> THEN add_user_message(parts, text) ELSE parts
    ELSE parts

\* on_transcript: a frame with a non-blank text adds a caller line.
on_transcript(frame) ==
    /\ Running
    /\ transcript_parts' = on_transcript_parts(transcript_parts, frame)
    /\ trace' = Append(trace, [ev |-> "transcript", frame |-> frame])
    /\ UNCHANGED <<pc, now, POSTGRES_URL, caller_number, detected_intent,
                   start_time, awaiting, log_call_args, db_rows, conns, logged,
                   task_cancels, handler_raised, ctxVars, wsVars, tool_results, db_ops, lkVars, tcVars>>

\* The names of the functions advertised to the model, in list order.
TOOLS ==
    <<"get_business_hours", "get_location", "transfer_to_sales",
      "transfer_to_support">>

\* llm.register_function: the handler registered under each function name.
registered_functions ==
    [get_business_hours |-> "handle_get_business_hours",
     get_location |-> "handle_get_location",
     transfer_to_sales |-> "handle_transfer_to_sales",
     transfer_to_support |-> "handle_transfer_to_support"]

\* The text each handler passes to result_callback.
ToolResults ==
    [get_business_hours |->
        "Acme Corp is open Monday to Friday, 9 AM to 5 PM Pacific time. We are closed on weekends and major holidays.",
     get_location |->
        "Acme Corp is located at 123 Main Street, San Francisco, California. We have free visitor parking available.",
     transfer_to_sales |-> "Connecting to the sales team now.",
     transfer_to_support |-> "Connecting to the support team now."]

\* Mutant: the handler sets the intent and returns without a result.
HandlerStart_no_result(name, intent) ==
    /\ Running
    /\ detected_intent' = set_intent(detected_intent, intent)
    /\ trace' = Append(trace, [ev |-> "tool", name |-> name, intent |-> intent])
    /\ UNCHANGED <<pc, now, POSTGRES_URL, caller_number, transcript_parts,
                   start_time, awaiting, log_call_args, db_rows, conns, logged,
                   task_cancels, handler_raised, ctxVars, wsVars, tool_results,
                   db_ops, lkVars, tcVars>>

\* Mutant: the handler suspends first and leaves the intent for later.
HandlerStart_await_first(name, intent) ==
    /\ Running
    /\ awaiting' = awaiting + 1
    /\ tool_results' =
          Append(tool_results,
                 [name |-> name, intent |-> detected_intent,
                  result |-> ToolResults[name]])
    /\ trace' = Append(trace, [ev |-> "tool", name |-> name, intent |-> intent])
    /\ UNCHANGED <<pc, now, POSTGRES_URL, caller_number, transcript_parts,
                   detected_intent, start_time, log_call_args, db_rows, conns,
                   logged, task_cancels, handler_raised, ctxVars, wsVars, db_ops, lkVars,
                   tcVars>>

\* A registered function handler up to its first suspension point: the intent
\* is set, then the handler calls result_callback with its result and awaits
\* it.  The result is recorded with the intent the tracker held at the call.
HandlerStart(name, intent) ==
    /\ Running
    /\ detected_intent' = set_intent(detected_intent, intent)
    /\ awaiting' = awaiting + 1
    /\ tool_results' =
          Append(tool_results,
                 [name |-> name, intent |-> detected_intent',
                  result |-> ToolResults[name]])
    /\ trace' = Append(trace, [ev |-> "tool", name |-> name, intent |-> intent])
    /\ UNCHANGED <<pc, now, POSTGRES_URL, caller_number, transcript_parts,
                   start_time, log_call_args, db_rows, conns, logged,
                   task_cancels, handler_raised, ctxVars, wsVars, db_ops, lkVars, tcVars>>

\* Mutant: the handler records the intent of its neighbour.
handle_get_business_hours_as_location ==
    HandlerStart("get_business_hours", "location_inquiry")

handle_get_business_hours == HandlerStart("get_business_hours", "hours_inquiry")

handle_get_location == HandlerStart("get_location", "location_inquiry")

handle_transfer_to_sales == HandlerStart("transfer_to_sales", "sales_transfer")

handle_transfer_to_support == HandlerStart("transfer_to_support", "support_transfer")

\* await result_callback(...) completes and the handler returns.
result_callback ==
    /\ pc = "running"
    /\ awaiting > 0
    /\ awaiting' = awaiting - 1
    /\ UNCHANGED <<pc, now, POSTGRES_URL, caller_number, transcript_parts,
                   detected_intent, start_time, log_call_args, db_rows, conns,
                   logged, task_cancels, handler_raised, trace, ctxVars, wsVars,
                   tool_results, db_ops, lkVars, tcVars>>

\* The pipeline produces an assistant reply (llm -> tts -> transport.output()
\* -> assistant_aggregator).  Nothing in run_bot passes it to the CallTracker.
assistant_reply(text) ==
    /\ Running
    /\ trace' = Append(trace, [ev |-> "reply", text |-> text])
    /\ UNCHANGED <<pc, now, POSTGRES_URL, caller_number, transcript_parts,
                   detected_intent, start_time, awaiting, log_call_args, db_rows,
                   conns, logged, task_cancels, handler_raised, ctxVars, wsVars,
                   tool_results, db_ops, lkVars, tcVars>>

\* on_client_disconnected: save, then cancel the task.  An exception leaving
\* save leaves the handler before task.cancel(); a save that does not return
\* keeps the handler, and the event loop it runs on, inside the call.
on_client_disconnected(outcome, t) ==
    /\ Running
    /\ Clock(t)
    /\ now' = t
    /\ LET r == save(POSTGRES_URL, outcome, caller_number, transcript_parts,
                     detected_intent, t, start_time) IN
       /\ log_call_args' = Append(log_call_args, r.args)
       /\ db_rows' = db_rows \o r.rows
       /\ conns' = [opened |-> conns.opened + r.opened,
                    closed |-> conns.closed + r.closed]
       /\ logged' = logged \cup r.logs
       /\ handler_raised' = IF r.raised THEN handler_raised + 1 ELSE handler_raised
       /\ task_cancels' = IF r.raised \/ r.hung THEN task_cancels
                          ELSE task_cancels + 1
       /\ pc' = IF r.hung THEN "blocked" ELSE pc
    /\ trace' = Append(trace, [ev |-> "disconnect"])
    /\ UNCHANGED <<POSTGRES_URL, caller_number, transcript_parts,
                   detected_intent, start_time, awaiting, ctxVars, wsVars,
                   tool_results, db_ops, lkVars, tcVars>>

Next ==
    \/ run_bot
    \/ bot_setup_raises
    \/ runner_returns
    \/ runner_raises
    \/ WithinBudget /\ \E frame \in Frames : on_transcript(frame)
    \/ WithinBudget /\ handle_get_business_hours
    \/ WithinBudget /\ handle_get_location
    \/ WithinBudget /\ handle_transfer_to_sales
    \/ WithinBudget /\ handle_transfer_to_support
    \/ result_callback
    \/ WithinBudget /\ \E text \in ReplyTexts : assistant_reply(text)
    \/ WithinBudget /\ \E outcome \in DbOutcomes, t \in 0..MaxTime :
          on_client_disconnected(outcome, t)

Spec == Init /\ [][Next]_vars

\* One scripted call: a transcript frame, the business-hours handler, a
\* transcript frame, a disconnect; handler completions and the runner's exit
\* interleave freely.
NextScenario ==
    \/ run_bot
    \/ Len(trace) \in {0, 2} /\ \E frame \in Frames : on_transcript(frame)
    \/ Len(trace) = 1 /\ handle_get_business_hours
    \/ Len(trace) = 3 /\ \E outcome \in DbOutcomes, t \in 0..MaxTime :
          on_client_disconnected(outcome, t)
    \/ result_callback
    \/ runner_returns
    \/ runner_raises

SpecScenario == Init /\ [][NextScenario]_vars

\* The message the connect handler adds to the context.
GreetingMessage == [role |-> "system", content |-> GreetingInstruction]

\* Mutant: the greeting instruction is put in front of the context.
greeting_prepended(messages) == <<GreetingMessage>> \o messages

\* context_messages.append({...}) in on_client_connected
greeting_appended(messages) == Append(messages, GreetingMessage)

\* Mutant: the model run is queued before the greeting instruction is added.
on_client_connected_run_first ==
    /\ Running
    /\ queued_frames' =
          Append(queued_frames,
                 [frame |-> "LLMRunFrame", context |-> context_messages])
    /\ context_messages' = greeting_appended(context_messages)
    /\ trace' = Append(trace, [ev |-> "connected"])
    /\ UNCHANGED <<pc, now, POSTGRES_URL, caller_number, transcript_parts,
                   detected_intent, start_time, awaiting, log_call_args, db_rows,
                   conns, logged, task_cancels, handler_raised, wsVars, tool_results, db_ops, lkVars,
                   tcVars>>

\* on_client_connected: the greeting instruction is appended to the context,
\* then one LLMRunFrame is queued; the frame is recorded with the context as
\* it stands when it is queued.
on_client_connected ==
    /\ Running
    /\ context_messages' = greeting_appended(context_messages)
    /\ queued_frames' =
          Append(queued_frames,
                 [frame |-> "LLMRunFrame", context |-> context_messages'])
    /\ trace' = Append(trace, [ev |-> "connected"])
    /\ UNCHANGED <<pc, now, POSTGRES_URL, caller_number, transcript_parts,
                   detected_intent, start_time, awaiting, log_call_args, db_rows,
                   conns, logged, task_cancels, handler_raised, wsVars, tool_results, db_ops, lkVars,
                   tcVars>>

\* The peer closes the websocket: its client state becomes DISCONNECTED.
client_disconnects ==
    /\ pc \in {"accepted", "running"}
    /\ client_state = "CONNECTED"
    /\ client_state' = "DISCONNECTED"
    /\ UNCHANGED <<pc, now, POSTGRES_URL, caller_number, transcript_parts,
                   detected_intent, start_time, awaiting, log_call_args, db_rows,
                   conns, logged, task_cancels, handler_raised, trace, ctxVars,
                   ws_closes, tool_results, db_ops, lkVars, tcVars>>

\* The transport-level view of one call: connect events, final and interim
\* transcript frames, the peer closing the socket, disconnect events whose
\* save succeeds or does not return, and the ways the endpoint is left.
NextSession ==
    \/ run_bot
    \/ bot_setup_raises
    \/ runner_returns
    \/ runner_raises
    \/ client_disconnects
    \/ WithinBudget /\ on_client_connected
    \/ WithinBudget /\ \E frame \in Frames \cup InterimFrames : on_transcript(frame)
    \/ WithinBudget /\ \E outcome \in SessionDbOutcomes, t \in 0..MaxTime :
          on_client_disconnected(outcome, t)

SpecSession == Init /\ [][NextSession]_vars

\* --------------------------------------------- server.py, database callers

\* The startup hook: init_db runs once, before the server serves anything.
\* An exception leaving init_db leaves the hook, and the server does not
\* start.
startup(outcome) ==
    /\ pc = "accepted"
    /\ db_ops = <<>>
    /\ LET r == init_db(POSTGRES_URL, outcome) IN
       /\ conns' = [opened |-> conns.opened + r.opened,
                    closed |-> conns.closed + r.closed]
       /\ logged' = logged \cup r.logs
       /\ pc' = IF r.raised THEN "startup_failed" ELSE pc
       /\ db_ops' = Append(db_ops, [op |-> "init_db", raised |-> r.raised,
                                    status |-> 0, count |-> 0])
    /\ UNCHANGED <<now, POSTGRES_URL, caller_number, transcript_parts,
                   detected_intent, start_time, awaiting, log_call_args, db_rows,
                   task_cancels, handler_raised, trace, ctxVars, wsVars,
                   tool_results, lkVars, tcVars>>

\* The /logs requests served so far.
LogsRequests == Len(SelectSeq(db_ops, LAMBDA o : o.op = "get_logs"))

\* GET /logs: one request, answered from the rows committed so far.
get_logs(outcome) ==
    /\ pc \in {"accepted", "running", "closed"}
    /\ LogsRequests < MaxRequests
    /\ LET r == get_logs_response(POSTGRES_URL, outcome, db_rows) IN
       /\ conns' = [opened |-> conns.opened + r.opened,
                    closed |-> conns.closed + r.closed]
       /\ logged' = logged \cup r.logs
       /\ db_ops' = Append(db_ops, [op |-> "get_logs", raised |-> r.raised,
                                    status |-> r.status, count |-> r.count])
    /\ UNCHANGED <<pc, now, POSTGRES_URL, caller_number, transcript_parts,
                   detected_intent, start_time, awaiting, log_call_args, db_rows,
                   task_cancels, handler_raised, trace, ctxVars, wsVars,
                   tool_results, lkVars, tcVars>>

\* The database view of the server: the startup hook, one call whose
\* disconnect events log it, and /logs requests, each against a database
\* that may fail at the connect, the query, the fetch or the commit.
NextDb ==
    \/ \E outcome \in OperationOutcomes : startup(outcome)
    \/ \E outcome \in OperationOutcomes : get_logs(outcome)
    \/ run_bot
    \/ runner_returns
    \/ WithinBudget /\ \E outcome \in OperationOutcomes, t \in 0..MaxTime :
          on_client_disconnected(outcome, t)

SpecDb == Init /\ [][NextDb]_vars

\* ------------------------------------------------- bot.py, concurrent calls

\* The tool names and the intent each handler records.
ToolIntents ==
    [get_business_hours |-> "hours_inquiry",
     get_location |-> "location_inquiry",
     transfer_to_sales |-> "sales_transfer",
     transfer_to_support |-> "support_transfer"]

\* Mutant: one CallTracker at module level serves every call.
tracker_shared(c) == 1

\* The CallTracker the handlers of call c close over: the one its own
\* run_bot constructed.
tracker_of(c) == c

\* The events delivered to the concurrent calls, taken together, are bounded.
CallsWithinBudget == Len(tc_trace[1]) + Len(tc_trace[2]) < MaxEvents

\* bot() -> run_bot() of call c: its CallTracker is constructed.
run_bot_call(c) ==
    /\ tc_pc[c] = "accepted"
    /\ tc_tracker' =
          [tc_tracker EXCEPT ![tracker_of(c)] =
              [caller_number |-> BodyGet(CallBodies[c], "from", "unknown"),
               transcript_parts |-> <<>>,
               detected_intent |-> "unknown",
               start_time |-> now]]
    /\ tc_pc' = [tc_pc EXCEPT ![c] = "running"]
    /\ UNCHANGED <<now, POSTGRES_URL, botVars, lkVars, tc_log_call_args, tc_trace>>

\* on_transcript of call c
on_transcript_call(c, frame) ==
    /\ tc_pc[c] = "running"
    /\ tc_tracker' =
          [tc_tracker EXCEPT ![tracker_of(c)].transcript_parts =
              on_transcript_parts(@, frame)]
    /\ tc_trace' =
          [tc_trace EXCEPT ![c] = Append(@, [ev |-> "transcript", frame |-> frame])]
    /\ UNCHANGED <<now, POSTGRES_URL, botVars, lkVars, tc_pc, tc_log_call_args>>

\* A function handler of call c, up to its await.
handler_call(c, name) ==
    /\ tc_pc[c] = "running"
    /\ tc_tracker' =
          [tc_tracker EXCEPT ![tracker_of(c)].detected_intent =
              set_intent(@, ToolIntents[name])]
    /\ tc_trace' =
          [tc_trace EXCEPT ![c] =
              Append(@, [ev |-> "tool", name |-> name, intent |-> ToolIntents[name]])]
    /\ UNCHANGED <<now, POSTGRES_URL, botVars, lkVars, tc_pc, tc_log_call_args>>

\* on_client_disconnected of call c: the record its save hands to log_call,
\* kept with the call it came from and the events that call had seen.
on_client_disconnected_call(c, t) ==
    /\ tc_pc[c] = "running"
    /\ Clock(t)
    /\ now' = t
    /\ LET k == tc_tracker[tracker_of(c)]
           r == save(POSTGRES_URL, "ok", k.caller_number, k.transcript_parts,
                     k.detected_intent, t, k.start_time)
       IN tc_log_call_args' =
             Append(tc_log_call_args,
                    [call |-> c, at |-> Len(tc_trace[c]), args |-> r.args])
    /\ tc_trace' = [tc_trace EXCEPT ![c] = Append(@, [ev |-> "disconnect"])]
    /\ UNCHANGED <<POSTGRES_URL, botVars, lkVars, tc_pc, tc_tracker>>

NextCalls ==
    \/ \E c \in Calls : run_bot_call(c)
    \/ CallsWithinBudget /\ \E c \in Calls, frame \in Frames :
          on_transcript_call(c, frame)
    \/ CallsWithinBudget /\ \E c \in Calls, name \in DOMAIN ToolIntents :
          handler_call(c, name)
    \/ CallsWithinBudget /\ \E c \in Calls, t \in 0..MaxTime :
          on_client_disconnected_call(c, t)

SpecCalls == Init /\ [][NextCalls]_vars

\* -------------------------------------------------------- livekit_agent.py

LkSeparator == <<" | ">>

\* Mutant: the parts are joined without the placeholder for an empty list.
lk_transcript_joined(parts) == join(LkSeparator, parts)

\* The transcript on_session_close hands over: the parts joined, or a
\* placeholder when there are none.
lk_transcript(parts) ==
    IF parts # <<>> THEN join(LkSeparator, parts) ELSE <<"No transcript">>

\* int(time.time() - receptionist._call_start_time)
lk_duration(t, start) == (t - start) \div TicksPerSecond

\* entrypoint: the Receptionist is constructed and given the caller found in
\* the room; the session starts.
entrypoint ==
    /\ lk_pc = "init"
    /\ lk_call_start_time' = now
    /\ lk_transcript_parts' = <<>>
    /\ lk_detected_intent' = "unknown"
    /\ \E c \in LkCallers : lk_caller_number' = c
    /\ lk_pc' = "active"
    /\ UNCHANGED <<now, POSTGRES_URL, botVars, tcVars, lk_log_call_args>>

LkActive == lk_pc = "active" /\ Len(lk_transcript_parts) < MaxLkTools

\* Receptionist.log_caller_intent
log_caller_intent(intent, summary) ==
    /\ LkActive
    /\ lk_detected_intent' = intent
    /\ lk_transcript_parts' =
          Append(lk_transcript_parts, <<"[Intent: ", intent, "] ", summary>>)
    /\ UNCHANGED <<now, POSTGRES_URL, botVars, tcVars, lk_pc, lk_caller_number,
                   lk_call_start_time, lk_log_call_args>>

\* Receptionist.transfer_to_department
transfer_to_department(department, caller_name, reason) ==
    /\ LkActive
    /\ lk_transcript_parts' =
          Append(lk_transcript_parts,
                 <<"[Transfer: ", department, "] ", caller_name, " - ", reason>>)
    /\ UNCHANGED <<now, POSTGRES_URL, botVars, tcVars, lk_pc, lk_caller_number,
                   lk_detected_intent, lk_call_start_time, lk_log_call_args>>

\* on_session_close: the record is built and handed to log_call.
on_session_close(t) ==
    /\ lk_pc = "active"
    /\ Clock(t)
    /\ now' = t
    /\ lk_log_call_args' =
          Append(lk_log_call_args,
                 [caller_number |-> lk_caller_number,
                  transcript |-> lk_transcript(lk_transcript_parts),
                  detected_intent |-> lk_detected_intent,
                  duration |-> lk_duration(t, lk_call_start_time)])
    /\ lk_pc' = "closed"
    /\ UNCHANGED <<POSTGRES_URL, botVars, tcVars, lk_caller_number, lk_transcript_parts,
                   lk_detected_intent, lk_call_start_time>>

NextLK ==
    \/ entrypoint
    \/ \E intent \in LkIntents, summary \in LkSummaries :
          log_caller_intent(intent, summary)
    \/ \E department \in LkDepartments, caller_name \in LkCallerNames,
          reason \in LkReasons :
          transfer_to_department(department, caller_name, reason)
    \/ \E t \in 0..MaxTime : on_session_close(t)

SpecLK == Init /\ [][NextLK]_vars

\* --------------------------------------------------------- history helpers

\* Positions of the disconnect events in the history.
DisconnectPositions == {p \in 1..Len(trace) : trace[p].ev = "disconnect"}

\* The events delivered before the i-th disconnect event.
Before(i) ==
    LET p == CHOOSE q \in DisconnectPositions :
                 Cardinality({r \in DisconnectPositions : r < q}) = i - 1
    IN SubSeq(trace, 1, p - 1)

IsUtterance(e) ==
    e.ev = "transcript" /\ "text" \in DOMAIN e.frame /\ strip(e.frame.text) # <<>>

IsTool(e) == e.ev = "tool"

IsReply(e) == e.ev = "reply"

\* The number of connect events in the history.
ConnectEvents == Cardinality({p \in 1..Len(trace) : trace[p].ev = "connected"})

\* The intent of the most recently started handler, "unknown" if none started.
LastStartedIntent(h) ==
    LET tools == SelectSeq(h, IsTool) IN
    IF tools = <<>> THEN "unknown" ELSE tools[Len(tools)].intent

\* The caller lines the utterances of a history call for, in delivery order.
RECURSIVE ExpectedCallerLines(_)
ExpectedCallerLines(h) ==
    IF h = <<>> THEN <<>>
    ELSE LET rest == ExpectedCallerLines(SubSeq(h, 1, Len(h) - 1))
             e == h[Len(h)]
         IN IF IsUtterance(e) THEN Append(rest, CallerPrefix \o strip(e.frame.text))
            ELSE rest

\* The lines a chronological transcript of a history holds: a caller line per
\* utterance and a Receptionist line per assistant reply, as they occurred.
RECURSIVE ChronologicalLines(_)
ChronologicalLines(h) ==
    IF h = <<>> THEN <<>>
    ELSE LET rest == ChronologicalLines(SubSeq(h, 1, Len(h) - 1))
             e == h[Len(h)]
         IN IF IsUtterance(e) THEN Append(rest, CallerPrefix \o strip(e.frame.text))
            ELSE IF IsReply(e) THEN Append(rest, ReceptionistPrefix \o e.text)
            ELSE rest

\* The lines of a transcript text: its split at the newlines.
RECURSIVE TranscriptLines(_)
TranscriptLines(text) ==
    IF text = <<>> THEN <<>>
    ELSE LET breaks == {i \in 1..Len(text) : text[i] = NewLine[1]} IN
         IF breaks = {} THEN <<text>>
         ELSE LET i == CHOOSE b \in breaks : \A c \in breaks : b <= c IN
              <<SubSeq(text, 1, i - 1)>> \o TranscriptLines(SubSeq(text, i + 1, Len(text)))

IsCallerLine(line) == line # <<>> /\ line[1] = CallerPrefix[1]

\* A transcript event that carries a provisional (partial) result.
IsInterim(e) == e.ev = "transcript" /\ e.frame.kind = "interim"

\* The caller lines the finalized utterances of a history call for.
RECURSIVE FinalizedCallerLines(_)
FinalizedCallerLines(h) ==
    IF h = <<>> THEN <<>>
    ELSE LET rest == FinalizedCallerLines(SubSeq(h, 1, Len(h) - 1))
             e == h[Len(h)]
         IN IF IsUtterance(e) /\ ~IsInterim(e)
            THEN Append(rest, CallerPrefix \o strip(e.frame.text))
            ELSE rest

Records == 1..Len(log_call_args)

\* ------------------------------------------------------------------ claims

\* C1: however many times the disconnect event is delivered to one call,
\* at most one record is handed to log_call.
C1_IdempotentFinalize == Len(log_call_args) <= 1

\* C2: once a started call session has ended (the endpoint has returned),
\* exactly one record has been handed to log_call, whichever way it ended.
C2_ExactlyOneRecordPerCall ==
    (pc = "closed" /\ caller_number # None) => Len(log_call_args) = 1

\* C3: no exception leaves save into the disconnect handler, and every run of
\* the handler goes on to cancel the pipeline task.
C3_PersistenceFailureSwallowed ==
    /\ handler_raised = 0
    /\ task_cancels = Len(log_call_args)

\* C4: with POSTGRES_URL unset, finalizing only logs warnings: no connection
\* is opened, nothing is inserted, nothing raises, and every disconnect
\* handler reaches task.cancel().
C4_NoGatewayDegrades ==
    ~Truthy(POSTGRES_URL) =>
        /\ handler_raised = 0
        /\ conns.opened = 0
        /\ db_rows = <<>>
        /\ task_cancels = Len(log_call_args)
        /\ logged \subseteq {"warning: POSTGRES_URL not set",
                             "warning: Skipping DB log", "error: Bot error"}
        /\ log_call_args # <<>> =>
              {"warning: POSTGRES_URL not set", "warning: Skipping DB log"}
                  \subseteq logged

C4_Witness ==
    /\ ~Truthy(POSTGRES_URL)
    /\ Len(log_call_args) = 1
    /\ task_cancels = 1
    /\ "warning: Skipping DB log" \in logged

\* C5: a record handed to log_call before any utterance or tool call was
\* recorded has an empty transcript, intent "unknown" and duration >= 0.
C5_EmptyCallFinalize ==
    \A i \in Records :
        (\A e \in {Before(i)[k] : k \in 1..Len(Before(i))} :
              ~IsUtterance(e) /\ ~IsTool(e)) =>
            /\ log_call_args[i].transcript = <<>>
            /\ log_call_args[i].detected_intent = "unknown"
            /\ log_call_args[i].duration >= 0

C5_Witness ==
    /\ Len(trace) = 2
    /\ trace[1].ev = "transcript"
    /\ trace[2].ev = "disconnect"
    /\ Len(log_call_args) = 1
    /\ log_call_args[1].transcript = <<>>
    /\ now > start_time

\* C6 as stated: when the LiveKit close handler runs with no transcript parts
\* recorded, the record has an empty transcript, intent "unknown" and
\* duration >= 0.
C6_LkEmptyTranscriptOriginal ==
    \A i \in 1..Len(lk_log_call_args) :
        lk_transcript_parts = <<>> =>
            /\ lk_log_call_args[i].transcript = <<>>
            /\ lk_log_call_args[i].detected_intent = "unknown"
            /\ lk_log_call_args[i].duration >= 0

\* C6 amended: when the LiveKit close handler runs with no transcript parts
\* recorded, the record carries the placeholder transcript "No transcript",
\* intent "unknown" and duration >= 0.
C6_LkEmptyCallFinalize ==
    \A i \in 1..Len(lk_log_call_args) :
        lk_transcript_parts = <<>> =>
            /\ lk_log_call_args[i].transcript = <<"No transcript">>
            /\ lk_log_call_args[i].detected_intent = "unknown"
            /\ lk_log_call_args[i].duration >= 0

C6_Witness ==
    /\ lk_pc = "closed"
    /\ lk_transcript_parts = <<>>
    /\ Len(lk_log_call_args) = 1
    /\ now > lk_call_start_time

\* C7: the intent of every record handed to log_call is the one set by the
\* handler started most recently before that disconnect, "unknown" if no
\* handler had started; the tracker never holds an earlier value.
C7_IntentLastWriteWins ==
    /\ caller_number # None => detected_intent = LastStartedIntent(trace)
    /\ \A i \in Records :
          log_call_args[i].detected_intent = LastStartedIntent(Before(i))

C7_Witness ==
    /\ Len(trace) = 3
    /\ IsTool(trace[1]) /\ IsTool(trace[2])
    /\ trace[1].intent # trace[2].intent
    /\ trace[3].ev = "disconnect"
    /\ awaiting = 2
    /\ log_call_args[1].detected_intent = trace[2].intent

\* The scenario of C8: utterance, business-hours handler, utterance, disconnect.
C8_Scenario ==
    /\ Len(trace) = 4
    /\ IsUtterance(trace[1])
    /\ IsTool(trace[2]) /\ trace[2].name = "get_business_hours"
    /\ IsUtterance(trace[3])
    /\ trace[4].ev = "disconnect"

\* C8: after utterance U1, the business-hours handler, utterance U2 and a
\* disconnect, the record has intent "hours_inquiry", a caller line for U1
\* before a caller line for U2, and a duration > 0 once a second has elapsed.
C8_HoursScenario ==
    C8_Scenario =>
        LET rec == log_call_args[1]
            lines == TranscriptLines(rec.transcript)
        IN /\ Len(log_call_args) = 1
           /\ rec.detected_intent = "hours_inquiry"
           /\ \E i, j \in 1..Len(lines) :
                 /\ i < j
                 /\ lines[i] = CallerPrefix \o strip(trace[1].frame.text)
                 /\ lines[j] = CallerPrefix \o strip(trace[3].frame.text)
           /\ now - start_time >= TicksPerSecond => rec.duration > 0

C8_Witness ==
    /\ C8_Scenario
    /\ strip(trace[1].frame.text) # strip(trace[3].frame.text)
    /\ now - start_time >= TicksPerSecond
    /\ log_call_args[1].duration > 0

\* C9: every step leaves the lines already in the transcript in place (it
\* only appends), and the caller lines are those of the utterances delivered
\* so far, in delivery order.
C9_TranscriptAppendOnly ==
    [][/\ IsPrefix(transcript_parts, transcript_parts')
       /\ SelectSeq(transcript_parts', IsCallerLine) = ExpectedCallerLines(trace')
      ]_vars

C9_Witness ==
    /\ Len(transcript_parts) = 2
    /\ transcript_parts[1] # transcript_parts[2]
    /\ Len(trace) = 3
    /\ ~IsUtterance(trace[2])

\* C10: the transcript of every record handed to log_call holds, in the
\* order they occurred, a caller line for each utterance and a Receptionist
\* line for each assistant reply produced before that disconnect.
C10_ChronologicalTranscript ==
    \A i \in Records :
        TranscriptLines(log_call_args[i].transcript) = ChronologicalLines(Before(i))

\* C11: only finalized utterances reach the call record: the caller lines of
\* the tracker are those of the finalized utterances delivered so far, and a
\* transcript event carrying a provisional result adds none.
C11_OnlyFinalizedRecorded ==
    SelectSeq(transcript_parts, IsCallerLine) = FinalizedCallerLines(trace)

\* C13: a handler has set its intent by the time it suspends in
\* result_callback; no other step (an utterance interrupting the turn, a
\* result delivered, a disconnect cancelling the task, the endpoint being
\* left) changes the intent; and a record handed to log_call carries the
\* intent of the handler started last, suspended or not.
C13_IntentSurvivesInterruption ==
    [][LET started == trace' # trace /\ IsTool(trace'[Len(trace')]) IN
       /\ started =>
             /\ detected_intent' = trace'[Len(trace')].intent
             /\ awaiting' = awaiting + 1
       /\ (~started /\ pc # "accepted") => detected_intent' = detected_intent
       /\ Len(log_call_args') > Len(log_call_args) =>
             log_call_args'[Len(log_call_args')].detected_intent =
                 LastStartedIntent(trace)
      ]_vars

C13_Witness ==
    /\ Len(trace) = 3
    /\ IsTool(trace[1])
    /\ IsUtterance(trace[2])
    /\ trace[3].ev = "disconnect"
    /\ awaiting = 1
    /\ task_cancels = 1
    /\ log_call_args[1].detected_intent = trace[1].intent

\* C16: once run_bot has built the context its first entry is the system
\* instruction, and every step keeps the entries already present in place:
\* the connect handler and every later event add at the end only.
C16_ContextAppendOnly ==
    [][/\ caller_number' # None =>
             /\ context_messages' # <<>>
             /\ context_messages'[1] = [role |-> "system", content |-> SYSTEM_PROMPT]
       /\ IsPrefix(context_messages, context_messages')
      ]_vars

C16_Witness ==
    /\ Len(trace) = 3
    /\ trace[1].ev = "connected"
    /\ IsUtterance(trace[2])
    /\ trace[3].ev = "connected"
    /\ Len(context_messages) = 3
    /\ context_messages[3] = GreetingMessage

\* C17: teardown does not wait for persistence: a disconnect handler whose
\* persistence call has not returned has requested the cancellation of the
\* pipeline task all the same.  (A handler held inside the call takes no
\* further step, so a cancellation not requested by then never is.)
C17_TeardownDoesNotWaitForPersistence ==
    pc = "blocked" => task_cancels = Len(log_call_args)

\* C18: with two calls served concurrently, under every interleaving of
\* their events each CallTracker, and each record handed to log_call, holds
\* the caller number of its own call, caller lines for the utterances
\* delivered to that call and no others, and the intent set by the handler
\* that call started last.
C18_NoCrossCallState ==
    /\ \A c \in Calls :
          tc_pc[c] = "running" =>
             /\ tc_tracker[c].caller_number = CallBodies[c].from
             /\ tc_tracker[c].transcript_parts = ExpectedCallerLines(tc_trace[c])
             /\ tc_tracker[c].detected_intent = LastStartedIntent(tc_trace[c])
    /\ \A i \in 1..Len(tc_log_call_args) :
          LET r == tc_log_call_args[i]
              h == SubSeq(tc_trace[r.call], 1, r.at)
          IN /\ r.args.caller_number = CallBodies[r.call].from
             /\ TranscriptLines(r.args.transcript) = ExpectedCallerLines(h)
             /\ r.args.detected_intent = LastStartedIntent(h)

C18_Witness ==
    /\ Len(tc_trace[1]) = 2
    /\ IsUtterance(tc_trace[1][1])
    /\ tc_trace[1][2].ev = "disconnect"
    /\ Len(tc_trace[2]) = 1
    /\ IsTool(tc_trace[2][1])
    /\ Len(tc_log_call_args) = 1
    /\ tc_log_call_args[1].call = 1
    /\ tc_log_call_args[1].args.detected_intent = "unknown"
    /\ tc_tracker[2].detected_intent # "unknown"

\* C19: however bot() ends (by returning or by raising an Exception, before
\* or after run_bot was entered) the endpoint returns normally, an Exception
\* having been logged, and it has closed the websocket once if the client
\* state was not DISCONNECTED and not at all if it was; before it returns it
\* has not closed the websocket.
C19_EndpointClosesCleanly ==
    /\ pc \in {"accepted", "running", "blocked", "closed"}
    /\ pc # "closed" => ws_closes = 0
    /\ pc = "closed" =>
          ws_closes = IF client_state = "DISCONNECTED" THEN 0 ELSE 1

C19_Witness ==
    /\ pc = "closed"
    /\ client_state = "DISCONNECTED"
    /\ ws_closes = 0
    /\ "error: Bot error" \in logged
    /\ Len(log_call_args) = 1

\* C20: the frames queued are exactly one LLMRunFrame per connect event
\* delivered so far (none before the first), and when the n-th of them was
\* queued the context already ended with the greeting instruction that
\* connect event appended.
C20_GreetingTurn ==
    /\ Len(queued_frames) = ConnectEvents
    /\ \A q \in 1..Len(queued_frames) :
          /\ queued_frames[q].frame = "LLMRunFrame"
          /\ Len(queued_frames[q].context) = q + 1
          /\ queued_frames[q].context[q + 1] = GreetingMessage
          /\ IsPrefix(queued_frames[q].context, context_messages)

C20_Witness ==
    /\ Len(trace) = 3
    /\ IsUtterance(trace[1])
    /\ trace[2].ev = "connected"
    /\ trace[3].ev = "connected"
    /\ Len(queued_frames) = 2
    /\ queued_frames[1].context # queued_frames[2].context

\* C21: the names advertised in TOOLS are exactly the names a handler is
\* registered under, and every invocation of a handler has handed exactly
\* one result to result_callback, its own, with the tracker's intent already
\* set to that handler's intent when the result was handed over.
C21_ToolsMatchHandlers ==
    LET tools == SelectSeq(trace, IsTool) IN
    /\ {TOOLS[i] : i \in 1..Len(TOOLS)} = DOMAIN registered_functions
    /\ Len(tool_results) = Len(tools)
    /\ \A k \in 1..Len(tool_results) :
          /\ tool_results[k].name = tools[k].name
          /\ tool_results[k].name \in DOMAIN registered_functions
          /\ tool_results[k].intent = ToolIntents[tools[k].name]
          /\ tool_results[k].result = ToolResults[tools[k].name]

C21_Witness ==
    /\ Len(tool_results) = 2
    /\ tool_results[1].name # tool_results[2].name
    /\ tool_results[1].intent # tool_results[2].intent
    /\ awaiting = 1
    /\ Len(trace) = 3
    /\ IsUtterance(trace[2])

\* C22: every operation on the database (init_db, log_call, the /logs
\* handler) either opens no connection or opens one and closes that one
\* once before the step is over, whether the operation succeeds or its
\* query, fetch or commit fails; between operations no connection is open.
C22_NoConnectionLeak ==
    [][LET opened == conns'.opened - conns.opened
           closed == conns'.closed - conns.closed
       IN /\ opened \in {0, 1}
          /\ closed = opened
          /\ conns'.opened = conns'.closed
      ]_vars

C22_Witness ==
    /\ conns.opened = 4
    /\ conns.closed = 4
    /\ {"error: Database init error", "error: Failed to log call",
        "error: Failed to fetch logs", "info: Call logged"} \subseteq logged

=============================================================================
